---- MODULE Spec2Model ----
(***************************************************************************)
(* A model of the process supervision in tray_gui.py: the server thread    *)
(* (start_core_server), the stream reader threads (read_output,            *)
(* read_client_output), the queued log_signal deliveries handled on the UI *)
(* thread (append_server_log, append_client_log, start_client), the        *)
(* liveness timer (check_processes), the shutdown handler                  *)
(* (MainWindow.closeEvent) and the LogHandler attached to the root logger. *)
(*                                                                         *)
(* Text is a sequence of one-character strings.  " " is a blank and "LF"   *)
(* the newline that ends a line read by readline(); both are whitespace    *)
(* for str.strip().  "R" stands for the readiness marker                   *)
(* "------------------------ 开始服务 ----------" of line 283.  The fixed  *)
(* messages that start_core_server and start_client emit themselves are    *)
(* one-token texts; the installation path they may embed is taken not to   *)
(* contain the marker.                                                     *)
(*                                                                         *)
(* A process handle (server_process, client_process) is an index into      *)
(* proc, the sequence of worker processes spawned so far; 0 is None.       *)
(*                                                                         *)
(* Scope.  closeEvent is followed on its non-spontaneous path: the path    *)
(* the tray menu's quit entry takes (line 556), lines 374-405.  The        *)
(* spontaneous path (lines 365-372) hides the window and touches no        *)
(* worker.  The Popen of start_client (lines 294-302) is taken to          *)
(* succeed; the Popen of start_core_server may fail (lines 467-471).       *)
(***************************************************************************)
EXTENDS Integers, Sequences, FiniteSets, TLC

\* ---------------------------------------------------------------- bounds
\* Lines the workers write in one run, over all their streams, in the runs
\* that follow the streams and the readiness marker (SpecGate).
MaxLines == 2
\* The same, in the runs that follow the shutdown handler (Spec).
StopLines == 1
\* Invocations of closeEvent in one run (Spec).
MaxStops == 2
\* Processes named start_server.exe left over from an earlier run (SpecSweep).
MaxOrphans == 2
\* Invocations of closeEvent in one run with left-over processes (SpecSweep).
SweepStops == 1
\* Timeouts of the liveness timer followed in one run.
MaxTicks == 2
\* Lines the workers write in the runs that go past the end of the event loop
\* (SpecLog): one to start the client, one to meet the deleted widget, one more.
LogLines == 3
\* Read errors raised by the workers' streams in one run.
MaxFaults == 1

\* ------------------------------------------------------------------ text
Whitespace == {" ", "LF"}

\* The lines a worker may write, each as readline() returns it.
Lines == { <<" ", "a", " ", "LF">>, <<"a", "R", " ", "LF">> }

Sentinel == <<"R">>

MsgExeMissing == <<"exe-missing">>
MsgExeDenied  == <<"exe-denied">>
MsgStarting   == <<"starting">>
MsgStarted    == <<"started">>
MsgSpawnFail  == <<"spawn-failed">>
MsgClientUp   == <<"client-started">>

RECURSIVE LStrip(_)
LStrip(s) ==
  IF s = <<>> THEN s
  ELSE IF Head(s) \in Whitespace THEN LStrip(Tail(s)) ELSE s

RECURSIVE RStrip(_)
RStrip(s) ==
  IF s = <<>> THEN s
  ELSE IF s[Len(s)] \in Whitespace THEN RStrip(SubSeq(s, 1, Len(s) - 1)) ELSE s

\* line.strip(): whitespace is removed at both ends.
Strip(s) == LStrip(RStrip(s))

\* sub in s
Contains(s, sub) ==
  \E i \in 0..(Len(s) - Len(sub)) : SubSeq(s, i + 1, i + Len(sub)) = sub

\* ----------------------------------------------------------------- state
VARIABLES
  exe,              \* start_server.exe on disk: "ok", "missing" or "denied"
  orphans,          \* pre-existing processes named start_server.exe, by pid
  pc,               \* position of the server thread in start_core_server
  server_process,   \* window.server_process
  client_process,   \* window.client_process
  proc,             \* the worker processes spawned so far
  pipe,             \* pipe[w][fd]: lines written by worker w, not yet read
  reader,           \* reader[w][fd]: the reader thread of that stream
  written,          \* written[w][fd]: every line worker w wrote to fd (history)
  nwritten,         \* lines written so far, over all streams
  lineLimit,        \* lines the workers write in this run
  stopLimit,        \* closeEvent invocations the owner makes in this run
  uiQueue,          \* log_signal emissions queued for the UI thread
  delivered,        \* messages handed to append_server_log / append_client_log
  logged,           \* records written through logging, counted by kind
  logHandler,       \* a LogHandler is attached to the root logger
  process_monitor,  \* the QTimer driving check_processes is active
  uiRunning,        \* the Qt event loop has not been quit
  spc,              \* position of the UI thread inside closeEvent
  stops,            \* closeEvent invocations so far
  trace,            \* the calls made by the latest closeEvent invocation (history)
  tickLimit,        \* timeouts of process_monitor followed in this run
  faultLimit,       \* read errors the streams raise in this run
  faulted,          \* the streams whose readline() has raised (history)
  ticks,            \* check_processes invocations so far
  reports,          \* the exit reports check_processes has made (history)
  client_log,       \* the QTextEdit the LogHandler writes to: "alive" or "deleted"
  swallowed         \* LogHandler.emit calls that met the deleted widget (history)

vars == << exe, orphans, pc, server_process, client_process, proc, pipe, reader,
           written, nwritten, lineLimit, stopLimit, uiQueue, delivered, logged,
           logHandler, process_monitor, uiRunning, spc, stops, trace,
           tickLimit, faultLimit, faulted, ticks, reports, client_log,
           swallowed >>

\* Fixed for the run.
limits == << lineLimit, stopLimit, tickLimit, faultLimit >>

Fds == {"out", "err"}

LogKinds == { "info", "exeMissing", "exeDenied", "found", "cleaned", "sweepWarn",
              "spawned", "spawnErr", "line", "termErr", "stopCleaned",
              "exitErr", "readErr" }

Bump(l, k, n) == [l EXCEPT ![k] = @ + n]

Workers == 1..Len(proc)

\* The channel a worker's reader threads publish on.
ChannelOf(w) == IF proc[w].kind = "server" THEN "server" ELSE "client"

\* emitter.emit_log(message) from a thread other than the UI thread: the
\* connection is queued, the slot runs later on the UI thread.
Emit(q, to, src, text) == Append(q, [to |-> to, src |-> src, text |-> text])

\* A closeEvent invocation has returned.
StopCompleted == stops > 0 /\ spc = "idle"

NewProc(kind) ==
  [kind |-> kind, st |-> "running", code |-> -1,
   asked   |-> FALSE,   \* terminate() has been called on it
   term    |-> FALSE,   \* a graceful termination request has reached it
   kill    |-> FALSE,   \* a forced kill has reached it
   endedBy |-> 0,       \* the closeEvent invocation whose block ended it
   late    |-> StopCompleted]   \* spawned after a closeEvent had returned

\* The state after MainWindow() and server_thread.start() (lines 513-519), in a
\* run with at most maxOrphans left-over processes, in which the workers write
\* nLines lines, the owner closes the window nStops times, the liveness timer
\* is followed for nTicks timeouts and the streams raise nFaults read errors.
Start(maxOrphans, nLines, nStops, nTicks, nFaults) ==
  /\ lineLimit = nLines
  /\ stopLimit = nStops
  /\ tickLimit = nTicks
  /\ faultLimit = nFaults
  /\ faulted = {}
  /\ ticks = 0
  /\ reports = <<>>
  /\ client_log = "alive"
  /\ swallowed = 0
  /\ exe \in {"ok", "missing", "denied"}
  /\ \E n \in 0..maxOrphans :
       orphans = [p \in 1..MaxOrphans |->
                    [st |-> IF p <= n THEN "running" ELSE "absent",
                     req |-> 0, swept |-> "no"]]
  /\ pc = "begin"
  /\ server_process = 0
  /\ client_process = 0
  /\ proc = <<>>
  /\ pipe = <<>>
  /\ reader = <<>>
  /\ written = <<>>
  /\ nwritten = 0
  /\ uiQueue = <<>>
  /\ delivered = [server |-> <<>>, client |-> <<>>]
  /\ logged = [k \in LogKinds |-> 0]
  /\ logHandler = FALSE
  /\ process_monitor = TRUE
  /\ uiRunning = TRUE
  /\ spc = "idle"
  /\ stops = 0
  /\ trace = <<>>

\* ------------------------------------------------- start_core_server
\* Mutant of ExeUsable: the checks of lines 415 and 422-430 let everything pass.
ExeUsableAlways(e) == TRUE

\* os.path.exists(server_exe_path) and the open(..., 'rb') probe both pass.
ExeUsable(e) == e = "ok"

\* Lines 407-430: log the paths, check the executable, give up if it is
\* missing or unreadable.
Validate ==
  /\ pc = "begin"
  /\ IF ExeUsable(exe)
       THEN /\ logged' = Bump(logged, "info", 3)
            /\ pc' = "sweep"
            /\ UNCHANGED uiQueue
       ELSE /\ logged' = Bump(Bump(logged, "info", 2),
                              IF exe = "denied" THEN "exeDenied" ELSE "exeMissing", 1)
            /\ uiQueue' = Emit(uiQueue, "server", <<0, "start">>,
                               IF exe = "denied" THEN MsgExeDenied ELSE MsgExeMissing)
            /\ pc' = "done"
  /\ UNCHANGED << limits, faulted, ticks, reports, client_log, swallowed, exe, orphans, server_process, client_process, proc, pipe, reader,
                  written, nwritten, delivered, logHandler, process_monitor,
                  uiRunning, spc, stops, trace >>

\* Mutant of Matched: only the first match is kept.
MatchedFirst ==
  { p \in DOMAIN orphans :
      /\ orphans[p].st = "running"
      /\ \A q \in DOMAIN orphans : orphans[q].st = "running" => p <= q }

\* The processes psutil.process_iter reports under the name start_server.exe.
Matched == { p \in DOMAIN orphans : orphans[p].st = "running" }

\* psutil.Process(pid).terminate() on a matched pid: the request is delivered,
\* the process has gone meanwhile (NoSuchProcess) or the OS refuses (AccessDenied).
SweepOutcomes == {"ok", "gone", "denied"}

Count(S, out, o) == Cardinality({ p \in S : out[p] = o })

AfterSweep(orph, S, out, byStart) ==
  [p \in DOMAIN orph |->
     IF p \notin S THEN orph[p]
     ELSE [st    |-> CASE out[p] = "ok" -> "terminated"
                       [] out[p] = "gone" -> "gone"
                       [] OTHER -> "running",
           req   |-> IF out[p] = "ok" THEN orph[p].req + 1 ELSE orph[p].req,
           swept |-> IF byStart THEN out[p] ELSE orph[p].swept]]

\* Lines 432-453: collect the pids named start_server.exe, terminate each,
\* logging one record per pid, then announce the start on the channel.
Sweep ==
  /\ pc = "sweep"
  /\ \E out \in [Matched -> SweepOutcomes] :
       /\ orphans' = AfterSweep(orphans, Matched, out, TRUE)
       /\ logged' = Bump(Bump(Bump(Bump(logged,
                       "found", IF Matched = {} THEN 0 ELSE 1),
                       "cleaned", Count(Matched, out, "ok")),
                       "sweepWarn", Cardinality(Matched) - Count(Matched, out, "ok")),
                       "info", 2)
  /\ uiQueue' = Emit(uiQueue, "server", <<0, "start">>, MsgStarting)
  /\ pc' = "spawn"
  /\ UNCHANGED << limits, faulted, ticks, reports, client_log, swallowed, exe, server_process, client_process, proc, pipe, reader, written,
                  nwritten, delivered, logHandler, process_monitor, uiRunning,
                  spc, stops, trace >>

\* Mutant of AfterSpawn: the sweep is run once more after the Popen.
SweepAgain == "sweep"

\* After a successful Popen the thread starts the readers and waits (473-482).
AfterSpawn == "wait"

\* Mutant of AfterSpawnFailure: the Popen is tried again.
RetrySpawn == "spawn"

\* "except Exception" of lines 467-471 ends in return.
AfterSpawnFailure == "done"

NoLines == [fd \in Fds |-> <<>>]
Reading == [fd \in Fds |-> "reading"]

\* Lines 455-480: Popen the server; on success record the handle, report the
\* pid and start the two reader threads; on failure report and return.
Spawn ==
  /\ pc = "spawn"
  /\ \E ok \in BOOLEAN :
       IF ok
         THEN /\ proc' = Append(proc, NewProc("server"))
              /\ server_process' = Len(proc) + 1
              /\ pipe' = Append(pipe, NoLines)
              /\ written' = Append(written, NoLines)
              /\ reader' = Append(reader, Reading)
              /\ logged' = Bump(logged, "spawned", 1)
              /\ uiQueue' = Emit(uiQueue, "server", <<0, "start">>, MsgStarted)
              /\ pc' = AfterSpawn
         ELSE /\ logged' = Bump(logged, "spawnErr", 1)
              /\ uiQueue' = Emit(uiQueue, "server", <<0, "start">>, MsgSpawnFail)
              /\ pc' = AfterSpawnFailure
              /\ UNCHANGED << proc, server_process, pipe, written, reader >>
  /\ UNCHANGED << limits, faulted, ticks, reports, client_log, swallowed, exe, orphans, client_process, nwritten, delivered, logHandler,
                  process_monitor, uiRunning, spc, stops, trace >>

\* Line 482: window.server_process.wait() returns once the server has exited.
WaitReturn ==
  /\ pc = "wait"
  /\ proc[server_process].st = "exited"
  /\ pc' = "done"
  /\ UNCHANGED << limits, faulted, ticks, reports, client_log, swallowed, exe, orphans, server_process, client_process, proc, pipe, reader,
                  written, nwritten, uiQueue, delivered, logged, logHandler,
                  process_monitor, uiRunning, spc, stops, trace >>

\* ------------------------------------------------- the worker processes
\* A running worker writes one line to its stdout or stderr.
WorkerWrite ==
  /\ nwritten < lineLimit
  /\ \E w \in Workers, fd \in Fds, l \in Lines :
       /\ proc[w].st = "running"
       /\ pipe' = [pipe EXCEPT ![w][fd] = Append(@, l)]
       /\ written' = [written EXCEPT ![w][fd] = Append(@, l)]
  /\ nwritten' = nwritten + 1
  /\ UNCHANGED << limits, faulted, ticks, reports, client_log, swallowed, exe, orphans, pc, server_process, client_process, proc, reader,
                  uiQueue, delivered, logged, logHandler, process_monitor,
                  uiRunning, spc, stops, trace >>

\* A running worker exits on its own, with exit code 0 or 1.
WorkerExit ==
  /\ \E w \in Workers, c \in {0, 1} :
       /\ proc[w].st = "running"
       /\ proc' = [proc EXCEPT ![w].st = "exited", ![w].code = c]
  /\ UNCHANGED << limits, faulted, ticks, reports, client_log, swallowed, exe, orphans, pc, server_process, client_process, pipe, reader,
                  written, nwritten, uiQueue, delivered, logged, logHandler,
                  process_monitor, uiRunning, spc, stops, trace >>

\* ------------------------------------------------- the reader threads
\* Mutant of HandlerAfterFault: the handler stays attached.
HandlerKept == TRUE

\* logging.getLogger().removeHandler(self) of line 84.
HandlerAfterFault == FALSE

\* One turn of "for line in iter(stream.readline, '')": log the stripped line
\* and emit it on the worker's channel.  The record goes to every handler of
\* the root logger; LogHandler.emit (lines 77-84) appends it to client_log, and
\* if the widget has been deleted the append raises RuntimeError, which emit
\* catches, removing the handler.  The other steps that log run before a
\* LogHandler is attached or on the UI thread while its event loop runs, when
\* the widget is alive.
ReadLine ==
  /\ \E w \in Workers, fd \in Fds :
       /\ reader[w][fd] = "reading"
       /\ pipe[w][fd] # <<>>
       /\ pipe' = [pipe EXCEPT ![w][fd] = Tail(@)]
       /\ uiQueue' = Emit(uiQueue, ChannelOf(w), <<w, fd>>, Strip(Head(pipe[w][fd])))
  /\ logged' = Bump(logged, "line", 1)
  /\ IF logHandler /\ client_log = "deleted"
       THEN /\ swallowed' = swallowed + 1
            /\ logHandler' = HandlerAfterFault
       ELSE UNCHANGED << swallowed, logHandler >>
  /\ UNCHANGED << limits, faulted, ticks, reports, client_log, exe, orphans, pc,
                  server_process, client_process, proc, reader, written, nwritten,
                  delivered, process_monitor, uiRunning, spc, stops, trace >>

\* readline() returns '' once the worker has exited and the pipe is drained:
\* the loop ends and the stream is closed.
ReadEOF ==
  /\ \E w \in Workers, fd \in Fds :
       /\ reader[w][fd] = "reading"
       /\ pipe[w][fd] = <<>>
       /\ proc[w].st = "exited"
       /\ reader' = [reader EXCEPT ![w][fd] = "closed"]
  /\ UNCHANGED << limits, faulted, ticks, reports, client_log, swallowed, exe, orphans, pc, server_process, client_process, proc, pipe,
                  written, nwritten, uiQueue, delivered, logged, logHandler,
                  process_monitor, uiRunning, spc, stops, trace >>

\* readline() raises, for instance UnicodeDecodeError on bytes the text stream
\* cannot decode.  Neither read_output nor read_client_output has a try
\* statement: the exception ends the thread, stream.close() (lines 308 and 477)
\* is not reached, and nothing goes through logging.
ReadError ==
  /\ Cardinality(faulted) < faultLimit
  /\ \E w \in Workers, fd \in Fds :
       /\ reader[w][fd] = "reading"
       /\ reader' = [reader EXCEPT ![w][fd] = "failed"]
       /\ faulted' = faulted \cup {<<w, fd>>}
  /\ UNCHANGED << limits, ticks, reports, client_log, swallowed, exe, orphans, pc,
                  server_process, client_process, proc, pipe, written, nwritten,
                  uiQueue, delivered, logged, logHandler, process_monitor,
                  uiRunning, spc, stops, trace >>

\* ------------------------------------------------- the UI thread: log slots
\* Mutant of Triggers: every message starts the client.
TriggersAlways(message) == TRUE

\* "... in message" of line 283.
Triggers(message) == Contains(message, Sentinel)

\* The head of the UI thread's queue is dispatched to its slot.
\* append_server_log (280-284) shows the message and, if it holds the marker,
\* runs start_client (290-323): Popen the client, start its two readers, emit
\* the start message (a direct call: the emitter lives on this thread) and
\* attach a LogHandler unless one is attached.  append_client_log (286-288)
\* only shows the message.
Deliver ==
  /\ uiRunning
  /\ spc = "idle"
  /\ uiQueue # <<>>
  /\ uiQueue' = Tail(uiQueue)
  /\ LET m == Head(uiQueue)
         shown == [src |-> m.src, text |-> m.text]
     IN IF m.to = "server"
          THEN IF Triggers(m.text)
                 THEN /\ proc' = Append(proc, NewProc("client"))
                      /\ client_process' = Len(proc) + 1
                      /\ pipe' = Append(pipe, NoLines)
                      /\ written' = Append(written, NoLines)
                      /\ reader' = Append(reader, Reading)
                      /\ delivered' =
                           [delivered EXCEPT
                              !.server = Append(@, shown),
                              !.client = Append(@, [src |-> <<0, "ui">>,
                                                    text |-> MsgClientUp])]
                      /\ logHandler' = TRUE
                 ELSE /\ delivered' = [delivered EXCEPT !.server = Append(@, shown)]
                      /\ UNCHANGED << proc, client_process, pipe, written, reader,
                                      logHandler >>
          ELSE /\ delivered' = [delivered EXCEPT !.client = Append(@, shown)]
               /\ UNCHANGED << proc, client_process, pipe, written, reader,
                               logHandler >>
  /\ UNCHANGED << limits, faulted, ticks, reports, client_log, swallowed, exe, orphans, pc, server_process, nwritten, logged,
                  process_monitor, uiRunning, spc, stops, trace >>

\* ------------------------------------------------- the UI thread: closeEvent
\* A call made by closeEvent invocation k; live tells whether the worker it
\* concerns was running when its block began.
Ev(k, op, who, live) == [stop |-> k, op |-> op, who |-> who, live |-> live]

\* Mutant of TimerAfterStop: closeEvent leaves the timer running.
TimerKept == TRUE

\* process_monitor.stop() of line 375 leaves the timer inactive.
TimerAfterStop == FALSE

\* "if self.server_process:" / "if self.client_process:" of lines 378 and 387.
Present(h) == h # 0

\* Mutant of ShutdownOutcomes: an exited worker is handled like a running one.
ShutdownOutcomesAny(st) == {"exited", "killed", "killfault", "termerr"}

\* What the block "terminate(); wait(timeout=5)" with its two except clauses can
\* do to a worker in state st.  On an exited worker terminate() is a no-op and
\* wait() returns at once.  On a running one: it exits within the grace period
\* ("exited"); the wait times out and kill() ends it ("killed"); the wait times
\* out and kill() itself raises out of the except clause ("killfault");
\* terminate() raises and "except Exception" logs it ("termerr").
ShutdownOutcomes(st) ==
  IF st = "exited" THEN {"gone"} ELSE {"exited", "killed", "killfault", "termerr"}

\* Mutant of BlockEvents: no grace period, kill() is called straight away.
BlockEventsNoGrace(k, w, o, st) ==
  << Ev(k, "kill", <<"worker", w>>, st = "running") >>

\* The calls the block makes on worker w, which is in state st, under outcome
\* o, in order.
BlockEvents(k, w, o, st) ==
  LET who == <<"worker", w>>
      E(op) == Ev(k, op, who, st = "running")
  IN CASE o \in {"gone", "exited"} -> << E("terminate"), E("waited") >>
       [] o = "killed"    -> << E("terminate"), E("timeout"), E("kill") >>
       [] o = "killfault" -> << E("terminate"), E("timeout"), E("kill"), E("fault") >>
       [] OTHER           -> << E("terminate"), E("termerr") >>

\* The worker after the block of closeEvent invocation k:
\* TerminateProcess(handle, 1) gives exit code 1.
BlockProc(p, o, k) ==
  CASE o = "exited"      -> [p EXCEPT !.st = "exited", !.code = 1, !.asked = TRUE,
                                      !.term = TRUE, !.endedBy = k]
    [] o = "killed"      -> [p EXCEPT !.st = "exited", !.code = 1, !.asked = TRUE,
                                      !.term = TRUE, !.kill = TRUE, !.endedBy = k]
    [] o = "killfault"   -> [p EXCEPT !.asked = TRUE, !.term = TRUE]
    [] OTHER             -> [p EXCEPT !.asked = TRUE]

\* An exception that leaves closeEvent ends the handler; the quit action's
\* lambda (line 556) then still calls app.quit().  quit is TRUE when closeEvent
\* was reached through that action, FALSE for a bare window.close().
Leave(quit) ==
  /\ spc' = "idle"
  /\ uiRunning' = ~quit

\* Lines 374-385: stop the timer, then terminate the server if it is recorded.
StopServer ==
  /\ uiRunning
  /\ spc = "idle"
  /\ stops < stopLimit
  /\ stops' = stops + 1
  /\ process_monitor' = TimerAfterStop
  /\ IF Present(server_process)
       THEN \E o \in ShutdownOutcomes(proc[server_process].st) :
              /\ proc' = [proc EXCEPT ![server_process] = BlockProc(@, o, stops + 1)]
              /\ trace' = << Ev(stops + 1, "enter", <<"ui", 0>>, TRUE) >>
                                \o BlockEvents(stops + 1, server_process, o,
                                               proc[server_process].st)
              /\ logged' = Bump(logged, "termErr", IF o = "termerr" THEN 1 ELSE 0)
              /\ IF o = "killfault"
                   THEN \E quit \in BOOLEAN : Leave(quit)
                   ELSE spc' = "client" /\ UNCHANGED uiRunning
       ELSE /\ trace' = << Ev(stops + 1, "enter", <<"ui", 0>>, TRUE) >>
            /\ spc' = "client"
            /\ UNCHANGED << proc, logged, uiRunning >>
  /\ UNCHANGED << limits, faulted, ticks, reports, client_log, swallowed, exe, orphans, pc, server_process, client_process, pipe, reader,
                  written, nwritten, uiQueue, delivered, logHandler >>

\* Lines 387-394: terminate the client if it is recorded.
StopClient ==
  /\ spc = "client"
  /\ IF Present(client_process)
       THEN \E o \in ShutdownOutcomes(proc[client_process].st) :
              /\ proc' = [proc EXCEPT ![client_process] = BlockProc(@, o, stops)]
              /\ trace' = trace \o BlockEvents(stops, client_process, o,
                                                proc[client_process].st)
              /\ logged' = Bump(logged, "termErr", IF o = "termerr" THEN 1 ELSE 0)
              /\ IF o = "killfault"
                   THEN \E quit \in BOOLEAN : Leave(quit)
                   ELSE spc' = "sweep" /\ UNCHANGED uiRunning
       ELSE /\ spc' = "sweep"
            /\ UNCHANGED << proc, trace, logged, uiRunning >>
  /\ UNCHANGED << limits, faulted, ticks, reports, client_log, swallowed, exe, orphans, pc, server_process, client_process, pipe, reader,
                  written, nwritten, uiQueue, delivered, logHandler,
                  process_monitor, stops >>

\* The workers psutil.process_iter reports under the name start_server.exe.
MatchedWorkers == { w \in Workers : proc[w].kind = "server" /\ proc[w].st = "running" }

\* Lines 396-405: terminate every process named start_server.exe, logging the
\* ones terminated and passing over NoSuchProcess, AccessDenied and
\* ZombieProcess, then accept the event.
StopSweep ==
  /\ spc = "sweep"
  /\ \E out \in [Matched -> SweepOutcomes], wout \in [MatchedWorkers -> {"ok", "denied"}] :
       /\ orphans' = AfterSweep(orphans, Matched, out, FALSE)
       /\ proc' = [w \in Workers |->
                     IF w \notin MatchedWorkers THEN proc[w]
                     ELSE IF wout[w] = "ok"
                       THEN [proc[w] EXCEPT !.st = "exited", !.code = 15,
                                            !.asked = TRUE, !.term = TRUE]
                       ELSE [proc[w] EXCEPT !.asked = TRUE]]
       /\ logged' = Bump(logged, "stopCleaned",
                         Count(Matched, out, "ok") + Count(MatchedWorkers, wout, "ok"))
       /\ trace' = trace \o
            << Ev(stops, "sweep",
                  <<"named", Cardinality(Matched) + Cardinality(MatchedWorkers)>>, TRUE),
               Ev(stops, "accept", <<"ui", 0>>, TRUE) >>
  /\ \E quit \in BOOLEAN : Leave(quit)
  /\ UNCHANGED << limits, faulted, ticks, reports, client_log, swallowed, exe, pc, server_process, client_process, pipe, reader, written,
                  nwritten, uiQueue, delivered, logHandler, process_monitor, stops >>

\* ------------------------------------------------- the end of the program
\* Once the event loop has been quit, app.exec() returns (line 568) and the
\* window goes with its widgets, while the daemon threads may still run.
WidgetDestroyed ==
  /\ ~uiRunning
  /\ client_log = "alive"
  /\ client_log' = "deleted"
  /\ UNCHANGED << limits, faulted, ticks, reports, swallowed, exe, orphans, pc,
                  server_process, client_process, proc, pipe, reader, written,
                  nwritten, uiQueue, delivered, logged, logHandler,
                  process_monitor, uiRunning, spc, stops, trace >>

\* ------------------------------------------------- the UI thread: check_processes
\* Mutant of Warned: no exit is shown as a warning.
WarnedNever(code) == FALSE

\* "if exit_code != 0" of lines 330 and 338: the warning is appended to the
\* worker's log pane.
Warned(code) == code # 0

\* "h and h.poll() is not None" of lines 327 and 335.
Exited(h) == Present(h) /\ proc[h].st = "exited"

\* Mutant of ReportsOf: an exit already reported is not reported again.
ReportsOnce(n, h) ==
  IF Exited(h) /\ \A i \in 1..Len(reports) : reports[i].who # h
    THEN << [tick |-> n, who |-> h, code |-> proc[h].code, level |-> "error",
             warned |-> Warned(proc[h].code), solicited |-> proc[h].asked,
             seen |-> nwritten] >>
    ELSE << >>

\* What check_processes invocation n reports for handle h: a record through
\* logging.error whatever the exit code (lines 329 and 337) and, for a non-zero
\* code, the warning in the pane.  solicited and seen are history: terminate()
\* had been called on the worker, and the lines written so far.
ReportsOf(n, h) ==
  IF Exited(h)
    THEN << [tick |-> n, who |-> h, code |-> proc[h].code, level |-> "error",
             warned |-> Warned(proc[h].code), solicited |-> proc[h].asked,
             seen |-> nwritten] >>
    ELSE << >>

\* Mutant of AfterCheck: every worker found exited is started again.
Restarted(p) ==
  [w \in DOMAIN p |->
     IF p[w].st = "exited" THEN [p[w] EXCEPT !.st = "running", !.code = -1] ELSE p[w]]

\* check_processes calls nothing but poll() on the handles.
AfterCheck(p) == p

\* Lines 325-340, run on each timeout of process_monitor (lines 112-114).
CheckProcesses ==
  /\ uiRunning
  /\ spc = "idle"
  /\ process_monitor
  /\ ticks < tickLimit
  /\ ticks' = ticks + 1
  /\ LET new == ReportsOf(ticks + 1, server_process)
                  \o ReportsOf(ticks + 1, client_process)
     IN /\ reports' = reports \o new
        /\ logged' = Bump(logged, "exitErr", Len(new))
  /\ proc' = AfterCheck(proc)
  /\ UNCHANGED << limits, faulted, client_log, swallowed, exe, orphans, pc, server_process,
                  client_process, pipe, reader, written, nwritten, uiQueue,
                  delivered, logHandler, process_monitor, uiRunning, spc, stops,
                  trace >>

Init == Start(0, StopLines, MaxStops, 0, 0)

InitGate == Start(0, MaxLines, 0, 0, 0)

InitSweep == Start(MaxOrphans, 0, SweepStops, 0, 0)

InitTick == Start(0, MaxLines, 0, MaxTicks, 0)

InitLog == Start(0, LogLines, SweepStops, 0, 0)

InitRead == Start(0, MaxLines, 0, 0, MaxFaults)

InitHalt == Start(0, StopLines, SweepStops, MaxTicks, 0)

\* The streams and the readiness gate, the window never closed.
NextGate ==
  \/ Validate
  \/ Sweep
  \/ Spawn
  \/ WaitReturn
  \/ WorkerWrite
  \/ WorkerExit
  \/ ReadLine
  \/ ReadEOF
  \/ Deliver

\* Startup and shutdown among left-over processes, the workers silent.
NextSweep ==
  \/ Validate
  \/ Sweep
  \/ Spawn
  \/ WaitReturn
  \/ WorkerExit
  \/ ReadEOF
  \/ Deliver
  \/ StopServer
  \/ StopClient
  \/ StopSweep

\* The streams with read errors, the window never closed.
NextRead ==
  \/ Validate
  \/ Sweep
  \/ Spawn
  \/ WaitReturn
  \/ WorkerWrite
  \/ WorkerExit
  \/ ReadLine
  \/ ReadEOF
  \/ ReadError
  \/ Deliver

\* The streams and the liveness timer, the window never closed.
NextTick ==
  \/ Validate
  \/ Sweep
  \/ Spawn
  \/ WaitReturn
  \/ WorkerWrite
  \/ WorkerExit
  \/ ReadLine
  \/ ReadEOF
  \/ Deliver
  \/ CheckProcesses

\* The streams up to and after the end of the event loop.  The end of a
\* reader's loop is left to the other runs: it changes nothing but reader, on a
\* stream that has no line left and never gets one.
NextLog ==
  \/ Validate
  \/ Sweep
  \/ Spawn
  \/ WaitReturn
  \/ WorkerWrite
  \/ WorkerExit
  \/ ReadLine
  \/ Deliver
  \/ StopServer
  \/ StopClient
  \/ StopSweep
  \/ WidgetDestroyed

\* The liveness timer and the shutdown handler.
NextHalt ==
  \/ Validate
  \/ Sweep
  \/ Spawn
  \/ WaitReturn
  \/ WorkerWrite
  \/ WorkerExit
  \/ ReadLine
  \/ ReadEOF
  \/ Deliver
  \/ CheckProcesses
  \/ StopServer
  \/ StopClient
  \/ StopSweep

Next ==
  \/ Validate
  \/ Sweep
  \/ Spawn
  \/ WaitReturn
  \/ WorkerWrite
  \/ WorkerExit
  \/ ReadLine
  \/ ReadEOF
  \/ Deliver
  \/ StopServer
  \/ StopClient
  \/ StopSweep

Spec == Init /\ [][Next]_vars

SpecGate == InitGate /\ [][NextGate]_vars

SpecSweep == InitSweep /\ [][NextSweep]_vars

SpecTick == InitTick /\ [][NextTick]_vars

SpecLog == InitLog /\ [][NextLog]_vars

SpecRead == InitRead /\ [][NextRead]_vars

SpecHalt == InitHalt /\ [][NextHalt]_vars

\* Every reader thread that has a line to read is scheduled, and the event
\* loop, never quit in these runs, dispatches what is queued for it.
SpecTickFair == SpecTick /\ WF_vars(ReadLine) /\ WF_vars(Deliver)

\* ==================================================================
\* The claims
\* ==================================================================
Clients == { w \in Workers : proc[w].kind = "client" }

\* The messages a subscriber has been handed that reader threads took from
\* stream fd of worker w, in the order it was handed them.
FromStream(w, fd) ==
  SelectSeq(delivered[ChannelOf(w)], LAMBDA m : m.src = <<w, fd>>)

\* The messages queued for the UI thread that came from stream fd of worker w.
Queued(w, fd) == SelectSeq(uiQueue, LAMBDA m : m.src = <<w, fd>>)

\* Delivered lines of the server's channel that hold the readiness marker.
MarkerLines ==
  { i \in 1..Len(delivered.server) : Contains(delivered.server[i].text, Sentinel) }

\* C1: the client is spawned exactly once, on the first delivered line that
\* holds the readiness marker, and never again on later marker lines: at any
\* time the number of client processes spawned is 1 if a marker line has been
\* delivered and 0 otherwise.
C1_SpawnExactlyOnce ==
  Cardinality(Clients) = IF MarkerLines = {} THEN 0 ELSE 1

\* C2: the client is never spawned before the server has signalled readiness:
\* whenever a client process exists, a line that a reader thread took from a
\* stream of the server process spawned by start_core_server, and that holds
\* the marker, has been delivered on the server's channel.
C2_ClientOnlyAfterReady ==
  (client_process # 0 \/ Clients # {}) =>
     /\ server_process # 0
     /\ proc[server_process].kind = "server"
     /\ \E i \in MarkerLines : delivered.server[i].src[1] = server_process

\* C2 witness: the server announced itself, wrote the marker on a stream, and
\* the client spawned on its delivery is running.
C2_Witness ==
  /\ client_process # 0
  /\ proc[client_process].st = "running"
  /\ \E i \in MarkerLines : delivered.server[i].src = <<server_process, "out">>
  /\ \E i \in 1..Len(delivered.server) : delivered.server[i].text = MsgStarted

\* C3: for every stream, the subscriber receives the lines written to it in the
\* order written, each once, each equal to the written line with only its
\* trailing whitespace removed; all of them once the reader has closed the
\* stream and nothing of it is queued.
C3_TrailingOnly ==
  \A w \in Workers, fd \in Fds :
    LET got == FromStream(w, fd)
        all == written[w][fd]
    IN /\ Len(got) <= Len(all)
       /\ \A i \in 1..Len(got) : got[i].text = RStrip(all[i])
       /\ (reader[w][fd] = "closed" /\ Queued(w, fd) = <<>>) => Len(got) = Len(all)

FailureTexts == { MsgExeMissing, MsgExeDenied }

\* C4: if the server executable is missing or cannot be opened, start_core_server
\* reports the failure to the log and on the channel and no process is ever
\* created: server_process and client_process stay None in every state.
C4_NoProcessWithoutExe ==
  exe \in {"missing", "denied"} =>
     /\ server_process = 0
     /\ client_process = 0
     /\ proc = <<>>
     /\ pc \in {"begin", "done"}
     /\ pc = "done" =>
          /\ logged["exeMissing"] + logged["exeDenied"] = 1
          /\ logged["spawned"] = 0
          /\ \/ \E i \in 1..Len(uiQueue) : uiQueue[i].text \in FailureTexts
             \/ \E i \in 1..Len(delivered.server) :
                  delivered.server[i].text \in FailureTexts

\* C4 witness: the executable is missing, start_core_server has returned, its
\* failure message has been shown and the window has been closed since.
C4_Witness ==
  /\ exe = "missing"
  /\ pc = "done"
  /\ StopCompleted
  /\ Len(delivered.server) = 1
  /\ delivered.server[1].text = MsgExeMissing
  /\ proc = <<>>

\* ------------------------------------------------------------- closeEvent
IsWorkerEv(e, op) == e.op = op /\ e.who[1] = "worker"

KindOf(e) == proc[e.who[2]].kind

Events == 1..Len(trace)

\* C5: when closeEvent runs with both workers spawned, the client's
\* termination request, with its wait and kill, comes before any termination
\* request to the server.
C5_SecondaryFirst ==
  \A i, j \in Events :
    (/\ IsWorkerEv(trace[i], "terminate") /\ KindOf(trace[i]) = "server"
     /\ IsWorkerEv(trace[j], "terminate") /\ KindOf(trace[j]) = "client")
    => j < i

\* C6: on each worker closeEvent calls terminate() first and then waits; kill()
\* is called exactly when the wait timed out, that is when the worker was still
\* alive as the grace period ended, and never before terminate().
C6_GracefulThenKill ==
  /\ \A w \in Workers : proc[w].kill => proc[w].term
  /\ \A j \in Events :
       LET e == trace[j]
           same(i) == i \in Events /\ trace[i].who = e.who /\ trace[i].stop = e.stop
       IN /\ e.op = "terminate" =>
               same(j + 1) /\ trace[j + 1].op \in {"waited", "timeout", "termerr"}
          /\ e.op = "waited" =>
               /\ same(j - 1) /\ trace[j - 1].op = "terminate"
               /\ ~(same(j + 1) /\ trace[j + 1].op = "kill")
               /\ proc[e.who[2]].st = "exited"
          /\ e.op = "timeout" =>
               /\ same(j - 1) /\ trace[j - 1].op = "terminate"
               /\ same(j + 1) /\ trace[j + 1].op = "kill"
               /\ e.live
          /\ e.op = "kill" =>
               /\ same(j - 1) /\ trace[j - 1].op = "timeout"
               /\ same(j - 2) /\ trace[j - 2].op = "terminate"

\* C6 witness: one closeEvent found both workers running; the server outlived
\* the grace period and was killed, the client exited within it.
C6_Witness ==
  /\ StopCompleted
  /\ server_process # 0 /\ client_process # 0
  /\ \E j \in Events : trace[j] = Ev(stops, "kill", <<"worker", server_process>>, TRUE)
  /\ \E j \in Events : trace[j] = Ev(stops, "waited", <<"worker", client_process>>, TRUE)
  /\ proc[server_process].kill /\ ~proc[client_process].kill

Terminated == { p \in DOMAIN orphans : orphans[p].st = "terminated" }

\* C7: closeEvent before start_core_server has done anything is a no-op: it
\* sends no termination request to any process, leaves the handles and the
\* liveness timer as they were and raises nothing.
C7_StopBeforeStartNoOp ==
  (pc = "begin" /\ StopCompleted) =>
     /\ server_process = 0 /\ client_process = 0
     /\ process_monitor = TRUE
     /\ \A p \in DOMAIN orphans : orphans[p].req = 0
     /\ \A j \in Events : trace[j].op \in {"enter", "sweep", "accept"}
     /\ \A j \in Events : trace[j].op = "sweep" => trace[j].who[2] = 0

\* C7 as amended: closeEvent before start_core_server has done anything
\* raises nothing and calls nothing on a worker handle, both handles stay None;
\* it does stop the liveness timer and it runs the sweep, which requests the
\* termination of every running process named start_server.exe and logs each
\* one it terminated.
C7_StopBeforeStart ==
  (pc = "begin" /\ StopCompleted) =>
     /\ server_process = 0 /\ client_process = 0 /\ proc = <<>>
     /\ process_monitor = FALSE
     /\ logged["termErr"] = 0
     /\ \A j \in Events : trace[j].op \in {"enter", "sweep", "accept"}
     /\ \E j \in Events : trace[j].op = "sweep" /\ trace[j].who[2] >= Cardinality(Matched)
     /\ logged["stopCleaned"] = Cardinality(Terminated)
     /\ \A p \in Terminated : orphans[p].req = 1

\* C7 witness: the window was closed before the server thread ran, and the
\* sweep of that closeEvent terminated a left-over process.
C7_Witness ==
  /\ pc = "begin"
  /\ StopCompleted
  /\ Terminated # {}
  /\ ~process_monitor

\* C8: a second closeEvent raises nothing on account of a worker that an
\* earlier closeEvent ended, whether that worker exited within the grace period
\* or was killed after it, nor on any worker that had already exited: an
\* exception leaves a second closeEvent only for a worker that was still
\* running when its block began.
C8_SecondStopNoFault ==
  \A j \in Events :
    (trace[j].op = "fault" /\ trace[j].stop >= 2) =>
       /\ trace[j].live
       /\ proc[trace[j].who[2]].endedBy = 0

\* C8 witness: the first closeEvent killed the server after the timeout and
\* saw the client exit within the grace period; the second closeEvent called
\* terminate() on both again and returned.
C8_Witness ==
  /\ stops = 2 /\ StopCompleted
  /\ server_process # 0 /\ client_process # 0
  /\ proc[server_process].endedBy = 1 /\ proc[server_process].kill
  /\ proc[client_process].endedBy = 1 /\ ~proc[client_process].kill
  /\ \E j \in Events : trace[j] = Ev(2, "terminate", <<"worker", server_process>>, FALSE)
  /\ \E j \in Events : trace[j] = Ev(2, "terminate", <<"worker", client_process>>, FALSE)
  /\ \E j \in Events : trace[j].op = "accept"

\* C9: closeEvent is safe against a start_core_server in progress on the
\* server thread and against pending deliveries: once a closeEvent has returned
\* and the server thread is past its spawn, no worker is running that
\* terminate() was never called on, and no worker is spawned after a closeEvent
\* has returned.
C9_StopSafeAcrossThreads ==
  /\ \A w \in Workers : ~proc[w].late
  /\ (StopCompleted /\ pc \in {"wait", "done"}) =>
        \A w \in Workers : proc[w].st = "running" => proc[w].asked

Present0 == { p \in DOMAIN orphans : orphans[p].st # "absent" }

Swept == { p \in DOMAIN orphans : orphans[p].swept # "no" }

SweptOk == { p \in Swept : orphans[p].swept = "ok" }

\* C10: whatever the number n of processes named start_server.exe when
\* start_core_server begins, once its sweep is over every one of them has
\* received a termination request and n cleanup records have been logged.
C10_SweepAll ==
  pc \notin {"begin", "sweep"} =>
     /\ \A p \in Present0 : orphans[p].req >= 1
     /\ logged["cleaned"] = Cardinality(Present0)

\* C10 as amended: when the executable check passes, the sweep calls
\* terminate on each of the n processes named start_server.exe that are running
\* when it enumerates them and logs exactly n per-process records: a cleanup
\* record for each process the request reached, a warning for each that had
\* gone or refused.  When the check fails, nothing is swept and nothing logged.
C10_SweepPerProcess ==
  /\ (pc \in {"begin", "sweep"} \/ exe # "ok") =>
        /\ Swept = {}
        /\ logged["found"] = 0 /\ logged["cleaned"] = 0 /\ logged["sweepWarn"] = 0
  /\ (pc \notin {"begin", "sweep"} /\ exe = "ok") =>
        /\ \A p \in Present0 \ Swept : orphans[p].st \in {"terminated", "gone"}
        /\ \A p \in SweptOk : orphans[p].req = 1 /\ orphans[p].st = "terminated"
        /\ \A p \in Swept \ SweptOk : orphans[p].swept = "gone" => orphans[p].req = 0
        /\ logged["found"] = IF Swept = {} THEN 0 ELSE 1
        /\ logged["cleaned"] = Cardinality(SweptOk)
        /\ logged["sweepWarn"] = Cardinality(Swept \ SweptOk)

\* C10 witness: two left-over processes, both terminated by the startup sweep,
\* two cleanup records, and the server spawned afterwards.
C10_Witness ==
  /\ Cardinality(SweptOk) = 2
  /\ logged["cleaned"] = 2
  /\ server_process # 0

\* ------------------------------------------------------- check_processes
ClientCrashed ==
  /\ Present(client_process)
  /\ proc[client_process].st = "exited"
  /\ proc[client_process].code # 0
  /\ ~proc[client_process].asked

ServerAlive == Present(server_process) /\ proc[server_process].st = "running"

\* The client's exit has been shown as a warning in its pane.
CrashShown ==
  \E i \in 1..Len(reports) : reports[i].who = client_process /\ reports[i].warned

\* A timeout of the liveness timer that finds the client exited with a
\* non-zero code, unasked, and the server running.
C11_Tick ==
  (ticks' = ticks + 1 /\ ClientCrashed /\ ServerAlive) =>
     /\ \E i \in (Len(reports) + 1)..Len(reports') :
           /\ reports'[i].who = client_process
           /\ reports'[i].tick = ticks'
           /\ reports'[i].code = proc[client_process].code
           /\ reports'[i].warned
     /\ server_process' = server_process
     /\ proc'[server_process] = proc[server_process]
     /\ reader'[server_process] = reader[server_process]
     /\ pipe' = pipe /\ uiQueue' = uiQueue /\ delivered' = delivered

\* C11: if the client exits on its own with a non-zero code while the server
\* runs, the next timeout of the liveness timer shows a crash warning for the
\* client and leaves the server's handle, process and streams as they were;
\* and every line the server has written once the warning is shown is
\* eventually delivered on the server's channel.
C11_ClientCrashReported ==
  /\ [][C11_Tick]_vars
  /\ \A fd \in Fds, k \in 1..MaxLines :
        (Present(server_process) /\ CrashShown
           /\ Len(written[server_process][fd]) >= k)
        ~> (Present(server_process) /\ Len(FromStream(server_process, fd)) >= k)

\* C11 witness: the client's crash was reported with exit code 1 while the
\* server ran, the server wrote a line after that report, and both of the
\* server's lines have been delivered.
C11_Witness ==
  /\ ServerAlive /\ ClientCrashed
  /\ \E i \in 1..Len(reports) :
        /\ reports[i].who = client_process /\ reports[i].warned
        /\ reports[i].code = 1
        /\ reports[i].seen = 1
  /\ Len(written[server_process]["out"]) = 2
  /\ Len(FromStream(server_process, "out")) = 2

\* C12: check_processes classifies an exit nobody asked for by its exit code:
\* a non-zero code is shown as a warning, a zero code is reported at
\* information level only, never as an error or an abnormal exit.
C12_ClassifiedByCode ==
  \A i \in 1..Len(reports) :
    ~reports[i].solicited =>
       /\ reports[i].code # 0 => reports[i].warned
       /\ reports[i].code = 0 => reports[i].level = "info" /\ ~reports[i].warned

\* A timeout of the liveness timer changes neither handle and no process.
C13_Tick ==
  ticks' = ticks + 1 =>
     /\ server_process' = server_process
     /\ client_process' = client_process
     /\ proc' = proc

\* A process that has exited has exited in the next state too.
C13_StaysDown ==
  \A w \in Workers :
     proc[w].st = "exited" => (w \in DOMAIN proc' /\ proc'[w].st = "exited")

\* C13: check_processes never restarts a worker: it leaves server_process and
\* client_process unchanged and spawns nothing, and a worker process that has
\* exited stays exited in every later state.
C13_NeverRestarts == [][C13_Tick /\ C13_StaysDown]_vars

\* C13 witness: the server exited on its own, two timeouts of the liveness
\* timer reported it, and it is still down under the same handle.
C13_Witness ==
  /\ ticks = 2
  /\ Exited(server_process)
  /\ \E i, j \in 1..Len(reports) :
        /\ reports[i].who = server_process /\ reports[i].tick = 1
        /\ reports[j].who = server_process /\ reports[j].tick = 2

\* C14: once closeEvent has been entered, no exit that its own terminate() or
\* kill() caused is reported by check_processes: the liveness timer is off from
\* the first closeEvent on, and no report concerns a worker on which
\* terminate() had been called.
C14_NoCrashReportAfterStop ==
  /\ stops > 0 => ~process_monitor
  /\ \A i \in 1..Len(reports) : ~reports[i].solicited

\* C14 witness: the liveness timer fired once while both workers ran, then a
\* closeEvent ended both; the window was closed without quitting, a timeout
\* is still to come in this run, and nothing has been reported.
C14_Witness ==
  /\ StopCompleted /\ uiRunning
  /\ ticks = 1 /\ ticks < tickLimit
  /\ Present(server_process) /\ proc[server_process].endedBy = 1
  /\ Present(client_process) /\ proc[client_process].endedBy = 1
  /\ reports = << >>

\* The errors the latest closeEvent met on a worker: terminate() raised, or
\* kill() raised after the grace period.
TerminationErrors == { j \in Events : trace[j].op \in {"termerr", "fault"} }

\* C15: an error met while terminating one worker is logged and closeEvent
\* goes on: a closeEvent that has returned has logged each such error, has
\* called terminate() on the client if one was recorded, has run the sweep and
\* has accepted the event.
C15_ShutdownGoesOn ==
  StopCompleted =>
     /\ logged["termErr"] >= Cardinality(TerminationErrors)
     /\ (Present(client_process) /\ ~proc[client_process].late) =>
           \E j \in Events : trace[j].op = "terminate"
                               /\ trace[j].who = <<"worker", client_process>>
     /\ \E j \in Events : trace[j].op = "sweep"
     /\ \E j \in Events : trace[j].op = "accept"

\* ------------------------------------------------------ the reader threads
\* C16: a read error in a reader thread is logged and treated as the end of
\* the stream: the reader closes the stream and returns, and the other
\* streams go on being read, each delivering its lines as written.
C16_ReadErrorIsEndOfStream ==
  /\ logged["readErr"] = Cardinality(faulted)
  /\ \A s \in faulted : reader[s[1]][s[2]] = "closed"
  /\ \A w \in Workers, fd \in Fds :
        <<w, fd>> \notin faulted =>
           /\ reader[w][fd] \in {"reading", "closed"}
           /\ Len(FromStream(w, fd)) <= Len(written[w][fd])
           /\ (reader[w][fd] = "closed" /\ Queued(w, fd) = << >>) =>
                 Len(FromStream(w, fd)) = Len(written[w][fd])

\* ---------------------------------------------------- start_core_server
\* The spawn failure has been emitted on the server's channel.
SpawnFailEmitted ==
  \/ \E i \in 1..Len(uiQueue) : uiQueue[i].text = MsgSpawnFail
  \/ \E i \in 1..Len(delivered.server) : delivered.server[i].text = MsgSpawnFail

\* C17: if the Popen of the server fails, start_core_server logs the failure
\* and emits it on the channel, once, and returns: server_process stays None,
\* no reader is started, the Popen is not tried again and no client is ever
\* spawned in that run.
C17_SpawnFailureTerminal ==
  logged["spawnErr"] > 0 =>
     /\ logged["spawnErr"] = 1
     /\ SpawnFailEmitted
     /\ pc = "done"
     /\ server_process = 0 /\ client_process = 0
     /\ proc = << >> /\ reader = << >>
     /\ logged["spawned"] = 0

\* C17 witness: the Popen failed, the thread has returned, and the failure has
\* been shown after the start announcement with nothing left to deliver.
C17_Witness ==
  /\ logged["spawnErr"] = 1
  /\ pc = "done" /\ uiQueue = << >>
  /\ Len(delivered.server) = 2
  /\ delivered.server[1].text = MsgStarting
  /\ delivered.server[2].text = MsgSpawnFail
  /\ proc = << >>

\* C20: in start_core_server the sweep is over before the server is spawned:
\* while the thread is at or before the sweep no worker exists, a recorded
\* server means the thread is past the sweep and the Popen, and until a
\* closeEvent begins no termination request reaches the server.
C20_SweepBeforeSpawn ==
  /\ pc \in {"begin", "sweep"} => (proc = << >> /\ server_process = 0)
  /\ Present(server_process) => (pc \in {"wait", "done"} /\ logged["info"] >= 5)
  /\ \A w \in Workers :
        (proc[w].kind = "server" /\ stops = 0) => (~proc[w].asked /\ ~proc[w].term)

\* C20 witness: the sweep terminated two left-over processes, the server was
\* spawned after it and is running, untouched.
C20_Witness ==
  /\ Cardinality(SweptOk) = 2
  /\ stops = 0
  /\ Present(server_process)
  /\ proc[server_process].st = "running"
  /\ ~proc[server_process].asked

\* ------------------------------------------------------------ the sweeps
SweepEvents == { j \in Events : trace[j].op = "sweep" }

\* C18: both sweeps are fault tolerant and log their failures: every process
\* the startup sweep could not terminate has a warning record and the thread
\* goes on to the Popen; every process the sweep of a closeEvent could not
\* terminate has a record too, and that closeEvent accepts the event.
C18_SweepFaultTolerant ==
  /\ (exe = "ok" /\ pc \notin {"begin", "sweep"}) =>
        logged["sweepWarn"] >= Cardinality(Swept \ SweptOk)
  /\ (stops = 1 /\ StopCompleted) =>
        \A j \in SweepEvents :
           /\ \E i \in Events : i > j /\ trace[i].op = "accept"
           /\ logged["sweepWarn"] - Cardinality(Swept \ SweptOk)
                >= trace[j].who[2] - logged["stopCleaned"]

\* ------------------------------------------------------------ LogHandler
\* A record is published: one more line has gone through logging.
Published == logged'["line"] = logged["line"] + 1

\* A step in which LogHandler.emit meets the deleted widget is a publish that
\* goes through; a publish that finds no handler attached calls none.
C19_Step ==
  /\ swallowed' > swallowed =>
        /\ Published
        /\ Len(uiQueue') = Len(uiQueue) + 1
        /\ ~logHandler'
  /\ (Published /\ ~logHandler) => (swallowed' = swallowed /\ ~logHandler')

\* C19: publishing a record to the LogHandler whose widget has been deleted
\* raises nothing to the publisher and removes the handler: the line being
\* logged is emitted on its channel all the same, the handler is detached from
\* then on, and a publish that finds it detached does not call it.
C19_DestroyedObserverSwallowed ==
  /\ [](swallowed > 0 => (~logHandler /\ client_log = "deleted"))
  /\ [][C19_Step]_vars

\* C19 witness: the handler attached by start_client met the deleted widget
\* once and was removed, and a line logged after that went by without it.
C19_Witness ==
  /\ swallowed = 1
  /\ ~logHandler
  /\ client_log = "deleted"
  /\ logged["line"] >= 3

\* ------------------------------------------------- repeated exit reports
\* The reports made about worker w, and the timeouts that made them.
ReportsAbout(r, w) == { i \in 1..Len(r) : r[i].who = w }

TicksAbout(w) == { reports[i].tick : i \in ReportsAbout(reports, w) }

Recorded == { h \in {server_process, client_process} : Present(h) }

\* A timeout of the liveness timer adds one report for each recorded worker
\* that has exited, whatever was reported before, and none for the others.
C21_Tick ==
  ticks' = ticks + 1 =>
     \A h \in Recorded :
        Cardinality(ReportsAbout(reports', h))
          = Cardinality(ReportsAbout(reports, h)) + (IF Exited(h) THEN 1 ELSE 0)

\* C21: the exit reports of check_processes are not de-duplicated: once a
\* recorded worker has exited, every timeout of the liveness timer reports
\* that exit again, so the timeouts that reported it are all those from the
\* first one after the exit to the latest, k reports for k timeouts; the
\* series ends only when closeEvent stops the timer.
C21_ReportsRepeat ==
  /\ [][C21_Tick]_vars
  /\ [](\A h \in Recorded :
          /\ Cardinality(ReportsAbout(reports, h)) = Cardinality(TicksAbout(h))
          /\ \A t \in TicksAbout(h) : \A u \in t..ticks : u \in TicksAbout(h))
  /\ [](stops > 0 => ~process_monitor)

\* C21 witness: the client exited with code 0 and stayed recorded; two
\* timeouts reported that one exit, then a closeEvent stopped the timer.
C21_Witness ==
  /\ Exited(client_process)
  /\ proc[client_process].code = 0
  /\ TicksAbout(client_process) = {1, 2}
  /\ Cardinality(ReportsAbout(reports, client_process)) = 2
  /\ StopCompleted /\ ~process_monitor

====
